---- MODULE Spec2Model ----
(***************************************************************************)
(* A model of lib/webpack.js: the webpack(options, callback) entry point,  *)
(* its inner create() (schema gate, single or multi compiler), and         *)
(* createCompiler / createMultiCompiler.  The collaborators that live      *)
(* outside lib/webpack.js (the schema predicate and validator, the         *)
(* plugins, the Compiler's hooks, run, watch and close) are the            *)
(* environment: their outcomes are chosen nondeterministically at the      *)
(* point where webpack.js calls them.                                      *)
(***************************************************************************)
EXTENDS Integers, Sequences, FiniteSets, TLC

\* ------------------------------------------------------------------ bounds
\* Largest options value when the process invokes webpack() again and
\* again: the sum, over its configurations, of one plus the number of
\* plugins, plus one for a true watch flag, plus one for declared watch
\* options, plus one for each declared dependency (one for an empty list).
MaxSize == 3
\* Largest options value, measured the same way, when the process makes a
\* single invocation.
MaxSingleSize == 4

\* ------------------------------------------------------------------ values
\* The shape of a plugin as createCompiler tests it: typeof plugin ===
\* "function", else an object on which .apply is called ("invalid" is an
\* object with no apply method).
PluginShapes == {"function", "object", "invalid"}

RECURSIVE SeqsUpTo(_, _)
SeqsUpTo(S, n) ==
    IF n = 0 THEN {<<>>}
    ELSE LET shorter == SeqsUpTo(S, n - 1)
         IN  shorter \cup {Append(s, x) : s \in {t \in shorter : Len(t) = n - 1}, x \in S}

\* options.plugins after normalization: always an array (line 77).
PluginLists == SeqsUpTo(PluginShapes, MaxSize - 1)

\* The name of the configuration at each position of an array: the names
\* are distinct, and a configuration alone is named like the first.
ConfigNames == << "a", "b", "c", "d", "e", "f", "g", "h" >>

\* The names a dependencies list may hold: those of the first two
\* configurations and one that no configuration has.
DepNames == {"a", "b", "x"}

\* options.dependencies: not declared (undefined), or a list of names.
NoDependencies == [declared |-> FALSE, names |-> <<>>]

DependencyValues ==
    {NoDependencies} \cup {[declared |-> TRUE, names |-> ns] : ns \in SeqsUpTo(DepNames, 2)}

Weight(c) ==
    1 + Len(c.plugins) + (IF c.watch THEN 1 ELSE 0)
      + (IF c.watchOptions = "undefined" THEN 0 ELSE 1)
      + (IF ~c.dependencies.declared THEN 0
         ELSE IF c.dependencies.names = <<>> THEN 1
         ELSE Len(c.dependencies.names))

\* The configurations of weight up to budget that can stand at position pos.
ConfigsAt(pos, budget) ==
    {c \in [name : {ConfigNames[pos]}, plugins : SeqsUpTo(PluginShapes, budget - 1),
            watch : BOOLEAN, watchOptions : {"undefined", "custom"},
            dependencies : DependencyValues] : Weight(c) <= budget}

\* The fields of a configuration that webpack.js and the MultiCompiler read.
Configs == ConfigsAt(1, MaxSize)

RECURSIVE ConfigListsFrom(_, _)
ConfigListsFrom(pos, budget) ==
    IF budget < 1 THEN {<<>>}
    ELSE {<<>>} \cup
         UNION { {<<c>> \o rest : rest \in ConfigListsFrom(pos + 1, budget - Weight(c))} :
                 c \in ConfigsAt(pos, budget) }

ConfigListsUpTo(budget) == ConfigListsFrom(1, budget)

ConfigLists == ConfigListsUpTo(MaxSize) \ {<<>>}

\* An options value: one configuration (isArray = FALSE, one element, which
\* declares no dependencies) or an array of configurations.
OptionValuesUpTo(n) ==
    {o \in [isArray : BOOLEAN, configs : ConfigListsUpTo(n) \ {<<>>}] :
        \/ o.isArray
        \/ Len(o.configs) = 1 /\ ~o.configs[1].dependencies.declared}

OptionValues == OptionValuesUpTo(MaxSize)

\* The options values of the single-invocation specification.
LargeOptionValues == OptionValuesUpTo(MaxSingleSize)

NoOptions == [isArray |-> FALSE, configs |-> <<>>]

\* Error values.  "null" and "undefined" are the two absent values of
\* JavaScript; everything else is an error object.
Absent == {"null", "undefined"}
Truthy(v) == v \notin Absent

\* Steps with WebpackOptionsApply.process moved behind the initialize hook.
StepsTranslationLast ==
    << "normalize", "baseDefaults", "newCompiler", "envPlugin", "plugins",
       "applyDefaults", "environment", "afterEnvironment", "initialize",
       "process", "return" >>

\* Steps with the plugin loop moved behind the call of the environment hook.
StepsHooksFirst ==
    << "normalize", "baseDefaults", "newCompiler", "envPlugin", "applyDefaults",
       "environment", "plugins", "afterEnvironment", "process", "initialize",
       "return" >>

\* The steps of createCompiler, in source order (plugins are a loop).
Steps ==
    << "normalize", "baseDefaults", "newCompiler", "envPlugin", "plugins",
       "applyDefaults", "environment", "afterEnvironment", "process",
       "initialize", "return" >>

StepIndex(s) == CHOOSE i \in 1..Len(Steps) : Steps[i] = s

SchemaCode == "DEP_WEBPACK_PRE_COMPILED_SCHEMA_INVALID"
WatchCode == "DEP_WEBPACK_WATCH_WITHOUT_CALLBACK"

\* ------------------------------------------------------------------- state
VARIABLES
    warned,      \* deprecation codes util.deprecate has already warned about
    warnings,    \* the warnings written so far, in order
    options,     \* the options argument of the current invocation
    hasCallback, \* whether a callback argument was passed
    pc,          \* position of the current invocation in webpack()
    gate,        \* what the schema predicate and validator answered
    child,       \* index of the configuration createCompiler is working on
    step,        \* the step of createCompiler about to execute
    k,           \* index of the next plugin in the plugin loop
    compilers,   \* the Compiler objects constructed so far
    multi,       \* whether the MultiCompiler has been constructed
    dep,         \* index of the next child in the setDependencies loop
    depMap,      \* the MultiCompiler's dependencies: [child, names] per call
    result,      \* what create() returned: [watch, watchOptions]
    retval,      \* what webpack() returned
    thrown,      \* the error webpack() threw to its caller
    ticks,       \* errors queued with process.nextTick for the callback
    runState,    \* compiler.run: "none", "pending", "done"
    runResult,   \* <<err, stats>> given to run's callback
    closeState,  \* compiler.close: "none", "pending", "done"
    closeResult, \* err2 given to close's callback
    cbCalls,     \* the calls of the user callback: <<err, stats>>
    manual,      \* the caller's own compiler.run: "none", "pending", "done"
    watchCalls,  \* the watch options and the handler of each compiler.watch call
    log          \* the calls made by this invocation, in order

vars ==
    << warned, warnings, options, hasCallback, pc, gate, child, step, k,
       compilers, multi, dep, depMap, result, retval, thrown, ticks, runState, runResult,
       closeState, closeResult, cbCalls, manual, watchCalls, log >>

procVars == << warned, warnings >>
ctorVars == << child, step, k, compilers, multi, dep, depMap >>
asyncVars ==
    << runState, runResult, closeState, closeResult, cbCalls, manual, watchCalls >>

\* An entry of the log: an operation, the compiler it acts on (0: the handle
\* create() returned, or none), and a plugin index (0: none).
Ev(op, c, i) == [op |-> op, c |-> c, i |-> i]

NoResult == [watch |-> FALSE, watchOptions |-> <<>>]
NoRun == << "undefined", "undefined" >>

\* A Compiler as createCompiler leaves it: the plugins that have registered
\* on it, what each user plugin saw registered when it was applied, and the
\* hooks called on it.
NewCompiler == [taps |-> <<>>, seen |-> <<>>, hooks |-> <<>>]

Init ==
    /\ warned = {}
    /\ warnings = <<>>
    /\ options = NoOptions
    /\ hasCallback = FALSE
    /\ pc = "idle"
    /\ gate = "none"
    /\ child = 0
    /\ step = "none"
    /\ k = 0
    /\ compilers = <<>>
    /\ multi = FALSE
    /\ dep = 0
    /\ depMap = <<>>
    /\ result = NoResult
    /\ retval = "none"
    /\ thrown = "none"
    /\ ticks = <<>>
    /\ runState = "none"
    /\ runResult = NoRun
    /\ closeState = "none"
    /\ closeResult = "undefined"
    /\ cbCalls = <<>>
    /\ manual = "none"
    /\ watchCalls = <<>>
    /\ log = <<>>

\* ------------------------------------------------------- process operations
\* No invocation is executing and none of its callbacks is outstanding.
Quiescent ==
    /\ pc \in {"idle", "returned", "thrown"}
    /\ ticks = <<>>
    /\ runState # "pending"
    /\ closeState # "pending"
    /\ manual # "pending"

\* webpack(options, callback) is entered (lines 128, 170).
Webpack(opts, cb) ==
    /\ pc = "idle"
    /\ options' = opts
    /\ hasCallback' = cb
    /\ pc' = "validate"
    /\ UNCHANGED << warned, warnings, gate, result, retval, thrown, ticks, log >>
    /\ UNCHANGED ctorVars
    /\ UNCHANGED asyncVars

\* The invocation is over and its last callback has run: its locals and its
\* compiler are dropped, and only the process's deprecation state is left
\* for the next invocation.
Discard ==
    /\ pc \in {"returned", "thrown"}
    /\ Quiescent
    /\ options' = NoOptions
    /\ hasCallback' = FALSE
    /\ pc' = "idle"
    /\ gate' = "none"
    /\ child' = 0
    /\ step' = "none"
    /\ k' = 0
    /\ compilers' = <<>>
    /\ multi' = FALSE
    /\ dep' = 0
    /\ depMap' = <<>>
    /\ result' = NoResult
    /\ retval' = "none"
    /\ thrown' = "none"
    /\ ticks' = <<>>
    /\ runState' = "none"
    /\ runResult' = NoRun
    /\ closeState' = "none"
    /\ closeResult' = "undefined"
    /\ cbCalls' = <<>>
    /\ manual' = "none"
    /\ watchCalls' = <<>>
    /\ log' = <<>>
    /\ UNCHANGED << warned, warnings >>

\* Raise without the try of line 171: the error leaves webpack() whether or
\* not a callback was given.
RaiseRethrow(e, events) ==
    /\ thrown' = e
    /\ pc' = "thrown"
    /\ ticks' = ticks
    /\ retval' = retval
    /\ log' = log \o events \o << Ev("throw", 0, 0) >>

\* Raise with the catch clause applied whether or not a callback was given.
RaiseAlwaysDeferred(e, events) ==
    /\ ticks' = Append(ticks, e)
    /\ retval' = "null"
    /\ pc' = "returned"
    /\ thrown' = thrown
    /\ log' = log \o events \o << Ev("nextTick", 0, 0), Ev("return", 0, 0) >>

\* Raise with a catch clause that only returns null: line 185 is missing.
RaiseSilent(e, events) ==
    IF hasCallback
    THEN /\ ticks' = ticks
         /\ retval' = "null"
         /\ pc' = "returned"
         /\ thrown' = thrown
         /\ log' = log \o events \o << Ev("return", 0, 0) >>
    ELSE /\ thrown' = e
         /\ pc' = "thrown"
         /\ ticks' = ticks
         /\ retval' = retval
         /\ log' = log \o events \o << Ev("throw", 0, 0) >>

\* An error raised inside create(): with a callback the catch clause queues
\* callback(err) on the next tick and webpack() returns null (lines 184-187);
\* without one nothing catches it and it leaves webpack() (lines 188-191).
Raise(e, events) ==
    IF hasCallback
    THEN /\ ticks' = Append(ticks, e)
         /\ retval' = "null"
         /\ pc' = "returned"
         /\ thrown' = thrown
         /\ log' = log \o events \o << Ev("nextTick", 0, 0), Ev("return", 0, 0) >>
    ELSE /\ thrown' = e
         /\ pc' = "thrown"
         /\ ticks' = ticks
         /\ retval' = retval
         /\ log' = log \o events \o << Ev("throw", 0, 0) >>

\* Deprecate as process.emitWarning called directly: the warning is written
\* at every call.
DeprecateEveryTime(code) ==
    /\ warned' = warned \cup {code}
    /\ warnings' = Append(warnings, code)

\* util.deprecate(fn, msg, code)(): the warning is written the first time a
\* code is used in the process, and never again.
Deprecate(code) ==
    /\ warned' = warned \cup {code}
    /\ warnings' = IF code \in warned THEN warnings ELSE Append(warnings, code)

\* asArray(options).every(webpackOptionsSchemaCheck): checks[i] is what the
\* precompiled predicate answers for configuration i.
EveryCheck(checks) == \A i \in DOMAIN checks : checks[i]

\* What the two schema collaborators answer for this options value: the
\* predicate accepts every configuration, or it rejects one and the
\* validator, asked about the whole value, accepts or rejects it.
Verdict(checks, valid) ==
    IF EveryCheck(checks) THEN "fastAccepts"
    ELSE IF valid THEN "slowAccepts"
    ELSE "slowRejects"

\* GateBranch that treats a rejection by the predicate as final.
GateBranchStrict(verdict) ==
    CASE verdict = "fastAccepts" -> "proceed"
      [] verdict = "slowAccepts" -> "throw"
      [] verdict = "slowRejects" -> "throw"

\* GateBranch that goes on after the validator rejected the options.
GateBranchLenient(verdict) ==
    CASE verdict = "fastAccepts" -> "proceed"
      [] verdict = "slowAccepts" -> "warn"
      [] verdict = "slowRejects" -> "warn"

\* What lines 131-138 do with those answers: skip the block, leave it by
\* the validator's exception, or run it to the end, deprecation included.
GateBranch(verdict) ==
    CASE verdict = "fastAccepts" -> "proceed"
      [] verdict = "slowAccepts" -> "warn"
      [] verdict = "slowRejects" -> "throw"

\* The first step of createCompiler for the first configuration.
EnterCreate ==
    /\ pc' = "createCompiler"
    /\ child' = 1
    /\ step' = Steps[1]
    /\ k' = 1

\* The schema gate (lines 131-138).
SchemaGate(checks, valid) ==
    /\ pc = "validate"
    /\ gate' = Verdict(checks, valid)
    /\ CASE GateBranch(gate') = "proceed" ->
              /\ EnterCreate
              /\ log' = Append(log, Ev("schemaCheck", 0, 0))
              /\ UNCHANGED << warned, warnings, retval, thrown, ticks >>
         [] GateBranch(gate') = "warn" ->
              /\ EnterCreate
              /\ Deprecate(SchemaCode)
              /\ log' = log \o << Ev("schemaCheck", 0, 0), Ev("validateSchema", 0, 0),
                                  Ev("deprecateSchema", 0, 0) >>
              /\ UNCHANGED << retval, thrown, ticks >>
         [] GateBranch(gate') = "throw" ->
              /\ Raise("ValidationError",
                       << Ev("schemaCheck", 0, 0), Ev("validateSchema", 0, 0) >>)
              /\ UNCHANGED << warned, warnings, child, step, k >>
    /\ UNCHANGED << options, hasCallback, compilers, multi, dep, depMap, result >>
    /\ UNCHANGED asyncVars

\* ----------------------------------------------------------- createCompiler
\* The configuration createCompiler is working on.
Cfg == options.configs[child]

\* The step after s in createCompiler (lines 65-102); the plugin loop has no
\* iteration when the plugin list is empty.
NextStep(s, nplugins) ==
    LET n == Steps[StepIndex(s) + 1]
    IN  IF n = "plugins" /\ nplugins = 0 THEN Steps[StepIndex(s) + 2] ELSE n

\* The hooks createCompiler calls (lines 92, 93, 100).
HookSteps == {"environment", "afterEnvironment", "initialize"}

\* The error a collaborator raises when the given step fails.
StepError(s) ==
    CASE s = "normalize" -> "NormalizeError"
      [] s = "baseDefaults" -> "BaseDefaultsError"
      [] s = "newCompiler" -> "CompilerError"
      [] s = "envPlugin" -> "EnvPluginError"
      [] s = "applyDefaults" -> "DefaultsError"
      [] s = "environment" -> "EnvironmentHookError"
      [] s = "afterEnvironment" -> "AfterEnvironmentHookError"
      [] s = "process" -> "OptionsApplyError"
      [] s = "initialize" -> "InitializeHookError"

\* StepEffect with the call of line 93 made on the environment hook again.
StepEffectEnvironmentTwice(s) ==
    CASE s = "newCompiler" -> Append(compilers, NewCompiler)
      [] s = "envPlugin" -> [compilers EXCEPT ![child].taps = Append(@, 0)]
      [] s = "afterEnvironment" ->
            [compilers EXCEPT ![child].hooks = Append(@, "environment")]
      [] s \in HookSteps -> [compilers EXCEPT ![child].hooks = Append(@, s)]
      [] OTHER -> compilers

\* What a step of createCompiler other than the plugin loop does to the
\* compilers built so far.
StepEffect(s) ==
    CASE s = "newCompiler" -> Append(compilers, NewCompiler)
      [] s = "envPlugin" -> [compilers EXCEPT ![child].taps = Append(@, 0)]
      [] s \in HookSteps -> [compilers EXCEPT ![child].hooks = Append(@, s)]
      [] OTHER -> compilers

\* One of lines 65-74 and 91-100 completes.
StepOk ==
    /\ pc = "createCompiler"
    /\ step \notin {"plugins", "return"}
    /\ compilers' = StepEffect(step)
    /\ step' = NextStep(step, Len(Cfg.plugins))
    /\ log' = Append(log, Ev(step, child, 0))
    /\ UNCHANGED << warned, warnings, options, hasCallback, pc, gate, child,
                    k, multi, dep, depMap, result, retval, thrown, ticks >>
    /\ UNCHANGED asyncVars

\* StepThrow with a try around each statement of createCompiler: with a
\* callback the error is queued for it and construction goes on.
StepThrowGoesOn ==
    /\ pc = "createCompiler"
    /\ step \notin {"plugins", "return"}
    /\ IF hasCallback
       THEN /\ ticks' = Append(ticks, StepError(step))
            /\ log' = log \o << Ev(step, child, 0), Ev("nextTick", 0, 0) >>
            /\ compilers' = StepEffect(step)
            /\ step' = NextStep(step, Len(Cfg.plugins))
            /\ UNCHANGED << pc, retval, thrown, child, k, multi, dep, depMap >>
       ELSE /\ Raise(StepError(step), << Ev(step, child, 0) >>)
            /\ UNCHANGED ctorVars
    /\ UNCHANGED << warned, warnings, options, hasCallback, gate, result >>
    /\ UNCHANGED asyncVars

\* One of lines 65-74 and 91-100 throws.
StepThrow ==
    /\ pc = "createCompiler"
    /\ step \notin {"plugins", "return"}
    /\ Raise(StepError(step), << Ev(step, child, 0) >>)
    /\ UNCHANGED << warned, warnings, options, hasCallback, gate, result >>
    /\ UNCHANGED ctorVars
    /\ UNCHANGED asyncVars

\* IterationIndex of a loop that walks the list from its end.
IterationIndexReversed(n, j) == n - j + 1

\* for (const plugin of options.plugins): the index visited by iteration j
\* of a list of n plugins (line 78).
IterationIndex(n, j) == j

\* The call that registers a plugin of the given shape (lines 81-87).
RegisterOp(shape) == IF shape = "function" THEN "plugin.call" ELSE "plugin.apply"

\* One iteration of the plugin loop completes (lines 78-88): the plugin
\* sees what is registered on the compiler, then registers itself.
PluginOk ==
    /\ pc = "createCompiler"
    /\ step = "plugins"
    /\ LET n == Len(Cfg.plugins)
           i == IterationIndex(n, k)
       IN  /\ Cfg.plugins[i] \in {"function", "object"}
           /\ compilers' = [compilers EXCEPT
                               ![child].taps = Append(@, i),
                               ![child].seen = Append(@, compilers[child].taps)]
           /\ log' = Append(log, Ev(RegisterOp(Cfg.plugins[i]), child, i))
           /\ k' = k + 1
           /\ step' = IF k = n THEN NextStep("plugins", n) ELSE "plugins"
    /\ UNCHANGED << warned, warnings, options, hasCallback, pc, gate, child,
                    multi, dep, depMap, result, retval, thrown, ticks >>
    /\ UNCHANGED asyncVars

\* PluginThrow with a test for apply before line 86: a plugin that is
\* neither callable nor has apply is passed over.
PluginThrowSkipsInvalid ==
    /\ pc = "createCompiler"
    /\ step = "plugins"
    /\ LET n == Len(Cfg.plugins)
           i == IterationIndex(n, k)
           shape == Cfg.plugins[i]
       IN  IF shape = "invalid"
           THEN /\ k' = k + 1
                /\ step' = IF k = n THEN NextStep("plugins", n) ELSE "plugins"
                /\ UNCHANGED << pc, ticks, retval, thrown, log, child, compilers,
                                multi, dep, depMap >>
           ELSE /\ Raise("PluginError", << Ev(RegisterOp(shape), child, i) >>)
                /\ UNCHANGED ctorVars
    /\ UNCHANGED << warned, warnings, options, hasCallback, gate, result >>
    /\ UNCHANGED asyncVars

\* One iteration of the plugin loop throws: the plugin's own code throws, or
\* plugin.apply is not a function (line 86) and the call is a TypeError.
PluginThrow ==
    /\ pc = "createCompiler"
    /\ step = "plugins"
    /\ LET i == IterationIndex(Len(Cfg.plugins), k)
           shape == Cfg.plugins[i]
       IN  Raise(IF shape = "invalid" THEN "TypeError" ELSE "PluginError",
                 << Ev(RegisterOp(shape), child, i) >>)
    /\ UNCHANGED << warned, warnings, options, hasCallback, gate, result >>
    /\ UNCHANGED ctorVars
    /\ UNCHANGED asyncVars

\* options.watchOptions || {} (lines 153, 161).
WatchOptionsOf(c) == IF c.watchOptions = "undefined" THEN "{}" ELSE c.watchOptions

\* CreateResult with every in place of some on line 152.
CreateResultEvery(opts) ==
    [watch |-> \A i \in DOMAIN opts.configs : opts.configs[i].watch,
     watchOptions |-> [i \in DOMAIN opts.configs |-> WatchOptionsOf(opts.configs[i])]]

\* The watch flag and watch options create() returns (lines 152-153 for an
\* array, 160-161 for one configuration, whose options are kept here as a
\* one-element sequence).
CreateResult(opts) ==
    [watch |-> \E i \in DOMAIN opts.configs : opts.configs[i].watch,
     watchOptions |-> [i \in DOMAIN opts.configs |-> WatchOptionsOf(opts.configs[i])]]

\* createCompiler returns its compiler (line 102): to the map of
\* createMultiCompiler (line 44), which goes on with the next configuration
\* or, past the last one, constructs the MultiCompiler; or to create()
\* (line 158), which returns to webpack().
ReturnCompiler ==
    /\ pc = "createCompiler"
    /\ step = "return"
    /\ log' = Append(log, Ev("return", child, 0))
    /\ IF child < Len(options.configs)
       THEN /\ child' = child + 1
            /\ step' = Steps[1]
            /\ k' = 1
            /\ UNCHANGED << pc, result >>
       ELSE /\ pc' = IF options.isArray THEN "multi" ELSE "dispatch"
            /\ result' = IF options.isArray THEN result ELSE CreateResult(options)
            /\ UNCHANGED << child, step, k >>
    /\ UNCHANGED << warned, warnings, options, hasCallback, gate, compilers,
                    multi, dep, depMap, retval, thrown, ticks >>
    /\ UNCHANGED asyncVars

\* new MultiCompiler(compilers, options) (line 45); the loop over the child
\* compilers follows.
CreateMulti ==
    /\ pc = "multi"
    /\ multi' = TRUE
    /\ dep' = 1
    /\ pc' = "dependencies"
    /\ log' = Append(log, Ev("MultiCompiler", 0, 0))
    /\ UNCHANGED << warned, warnings, options, hasCallback, gate, child, step,
                    k, compilers, depMap, result, retval, thrown, ticks >>
    /\ UNCHANGED asyncVars

\* HasDependencies with a test that never succeeds: setDependencies is
\* called for no child.
HasDependenciesNever(c) == FALSE

\* HasDependencies without the test of line 47: every child has its
\* dependencies recorded.
HasDependenciesAlways(c) == TRUE

\* if (childCompiler.options.dependencies) (line 47): a declared list is
\* truthy, the empty one included.
HasDependencies(c) == c.dependencies.declared

\* The names of the configurations of the array.
PeerNames == {options.configs[i].name : i \in DOMAIN options.configs}

\* A dependencies list names a peer that no configuration of the array has.
UnknownPeer(names) == \E j \in DOMAIN names : names[j] \notin PeerNames

\* One iteration of the loop of lines 46-53 completes: for a child with
\* dependencies, setDependencies records them; past the last child,
\* createMultiCompiler returns (line 54) and create() returns the
\* MultiCompiler with the watch flag and the watch options (lines 152-153, 163).
SetDependencies ==
    /\ pc = "dependencies"
    /\ LET c == options.configs[dep] IN
         IF HasDependencies(c)
         THEN /\ ~UnknownPeer(c.dependencies.names)
              /\ depMap' = Append(depMap, [child |-> dep, names |-> c.dependencies.names])
              /\ log' = Append(log, Ev("setDependencies", 0, dep))
         ELSE UNCHANGED << depMap, log >>
    /\ IF dep < Len(options.configs)
       THEN /\ dep' = dep + 1
            /\ UNCHANGED << pc, result >>
       ELSE /\ pc' = "dispatch"
            /\ result' = CreateResult(options)
            /\ UNCHANGED dep
    /\ UNCHANGED << warned, warnings, options, hasCallback, gate, child, step,
                    k, compilers, multi, retval, thrown, ticks >>
    /\ UNCHANGED asyncVars

\* setDependencies (line 48) throws on a list that names an unknown peer:
\* the behaviour the MultiCompiler's specification gives it, its code being
\* outside lib/webpack.js.
SetDependenciesThrow ==
    /\ pc = "dependencies"
    /\ HasDependencies(options.configs[dep])
    /\ UnknownPeer(options.configs[dep].dependencies.names)
    /\ Raise("DependencyGraphError", << Ev("setDependencies", 0, dep) >>)
    /\ UNCHANGED << warned, warnings, options, hasCallback, gate, result >>
    /\ UNCHANGED ctorVars
    /\ UNCHANGED asyncVars

\* ------------------------------------------------------------------ webpack
\* DispatchWatch without the else of line 176: watch, then run as well.
DispatchWatchAndRun ==
    /\ pc = "dispatch"
    /\ hasCallback
    /\ result.watch
    /\ watchCalls' = Append(watchCalls, [options |-> result.watchOptions,
                                         handler |-> "callback"])
    /\ runState' = "pending"
    /\ pc' = "return"
    /\ log' = log \o << Ev("watch", 0, 0), Ev("run", 0, 0) >>
    /\ UNCHANGED << warned, warnings, options, hasCallback, gate, result,
                    retval, thrown, ticks, runResult, closeState,
                    closeResult, cbCalls, manual >>
    /\ UNCHANGED ctorVars

\* With a callback and a true watch flag: compiler.watch(watchOptions,
\* callback) (lines 173-175).
DispatchWatch ==
    /\ pc = "dispatch"
    /\ hasCallback
    /\ result.watch
    /\ watchCalls' = Append(watchCalls, [options |-> result.watchOptions,
                                         handler |-> "callback"])
    /\ pc' = "return"
    /\ log' = Append(log, Ev("watch", 0, 0))
    /\ UNCHANGED << warned, warnings, options, hasCallback, gate, result,
                    retval, thrown, ticks, runState, runResult, closeState,
                    closeResult, cbCalls, manual >>
    /\ UNCHANGED ctorVars

\* With a callback and a false watch flag: compiler.run(...) (lines 176-177).
DispatchRun ==
    /\ pc = "dispatch"
    /\ hasCallback
    /\ ~result.watch
    /\ runState' = "pending"
    /\ pc' = "return"
    /\ log' = Append(log, Ev("run", 0, 0))
    /\ UNCHANGED << warned, warnings, options, hasCallback, gate, result,
                    retval, thrown, ticks, runResult, closeState, closeResult,
                    cbCalls, manual, watchCalls >>
    /\ UNCHANGED ctorVars

\* DispatchNone without lines 192-198: no warning for a true watch flag.
DispatchNoneSilent ==
    /\ pc = "dispatch"
    /\ ~hasCallback
    /\ pc' = "return"
    /\ UNCHANGED << warned, warnings, log >>
    /\ UNCHANGED << options, hasCallback, gate, result, retval, thrown, ticks >>
    /\ UNCHANGED ctorVars
    /\ UNCHANGED asyncVars

\* Without a callback (lines 191-198): nothing is started; a true watch
\* flag is answered with the deprecation warning.
DispatchNone ==
    /\ pc = "dispatch"
    /\ ~hasCallback
    /\ IF result.watch
       THEN /\ Deprecate(WatchCode)
            /\ log' = Append(log, Ev("deprecateWatch", 0, 0))
       ELSE UNCHANGED << warned, warnings, log >>
    /\ pc' = "return"
    /\ UNCHANGED << options, hasCallback, gate, result, retval, thrown, ticks >>
    /\ UNCHANGED ctorVars
    /\ UNCHANGED asyncVars

\* Return handing back null, as the catch clause of line 186 does.
ReturnNull ==
    /\ pc = "return"
    /\ retval' = "null"
    /\ pc' = "returned"
    /\ log' = Append(log, Ev("return", 0, 0))
    /\ UNCHANGED << warned, warnings, options, hasCallback, gate, result,
                    thrown, ticks >>
    /\ UNCHANGED ctorVars
    /\ UNCHANGED asyncVars

\* return compiler (lines 183, 199).
Return ==
    /\ pc = "return"
    /\ retval' = "compiler"
    /\ pc' = "returned"
    /\ log' = Append(log, Ev("return", 0, 0))
    /\ UNCHANGED << warned, warnings, options, hasCallback, gate, result,
                    thrown, ticks >>
    /\ UNCHANGED ctorVars
    /\ UNCHANGED asyncVars

\* What compiler.run hands to its callback: an error and no stats, or no
\* error and the stats.
RunOutcomes == { << "null", "stats" >>, << "RunError", "undefined" >> }

\* What compiler.close hands to its callback.
CloseOutcomes == {"undefined", "null", "CloseError"}

\* MergeErrors with the operands exchanged: err2 || err.
MergeErrorsCloseFirst(err, err2) == IF Truthy(err2) THEN err2 ELSE err

\* err || err2 (line 179).
MergeErrors(err, err2) == IF Truthy(err) THEN err ELSE err2

\* RunCallback that reports a failed run at once, without closing.
RunCallbackSkipClose(err, stats) ==
    /\ runState = "pending"
    /\ runState' = "done"
    /\ runResult' = << err, stats >>
    /\ IF Truthy(err)
       THEN /\ cbCalls' = Append(cbCalls, << err, stats >>)
            /\ log' = log \o << Ev("runCallback", 0, 0), Ev("callback", 0, 0) >>
            /\ UNCHANGED closeState
       ELSE /\ closeState' = "pending"
            /\ log' = log \o << Ev("runCallback", 0, 0), Ev("close", 0, 0) >>
            /\ UNCHANGED cbCalls
    /\ UNCHANGED << warned, warnings, options, hasCallback, pc, gate, result,
                    retval, thrown, ticks, closeResult, manual, watchCalls >>
    /\ UNCHANGED ctorVars

\* run's completion callback (lines 177-181): it records nothing itself and
\* calls compiler.close.
RunCallback(err, stats) ==
    /\ runState = "pending"
    /\ runState' = "done"
    /\ runResult' = << err, stats >>
    /\ closeState' = "pending"
    /\ log' = log \o << Ev("runCallback", 0, 0), Ev("close", 0, 0) >>
    /\ UNCHANGED << warned, warnings, options, hasCallback, pc, gate, result,
                    retval, thrown, ticks, closeResult, cbCalls, manual, watchCalls >>
    /\ UNCHANGED ctorVars

\* close's completion callback (lines 178-180): callback(err || err2, stats).
CloseCallback(err2) ==
    /\ closeState = "pending"
    /\ closeState' = "done"
    /\ closeResult' = err2
    /\ cbCalls' = Append(cbCalls, << MergeErrors(runResult[1], err2), runResult[2] >>)
    /\ log' = log \o << Ev("closeCallback", 0, 0), Ev("callback", 0, 0) >>
    /\ UNCHANGED << warned, warnings, options, hasCallback, pc, gate, result,
                    retval, thrown, ticks, runState, runResult, manual, watchCalls >>
    /\ UNCHANGED ctorVars

\* The tick queued by the catch clause (line 185): callback(err), once
\* webpack() has returned.
Tick ==
    /\ pc = "returned"
    /\ ticks # <<>>
    /\ cbCalls' = Append(cbCalls, << Head(ticks), "undefined" >>)
    /\ ticks' = Tail(ticks)
    /\ log' = Append(log, Ev("callback", 0, 0))
    /\ UNCHANGED << warned, warnings, options, hasCallback, pc, gate, result,
                    retval, thrown, runState, runResult, closeState, closeResult,
                    manual, watchCalls >>
    /\ UNCHANGED ctorVars

\* The consumer script: webpack(config) without a callback, then the caller
\* runs the returned compiler itself.
ManualRun ==
    /\ pc = "returned"
    /\ ~hasCallback
    /\ retval = "compiler"
    /\ manual = "none"
    /\ manual' = "pending"
    /\ log' = Append(log, Ev("callerRun", 0, 0))
    /\ UNCHANGED << warned, warnings, options, hasCallback, pc, gate, result,
                    retval, thrown, ticks, runState, runResult, closeState,
                    closeResult, cbCalls, watchCalls >>
    /\ UNCHANGED ctorVars

\* The callback of the caller's own run: it only prints the error.
ManualRunCallback ==
    /\ manual = "pending"
    /\ manual' = "done"
    /\ log' = Append(log, Ev("callerRunCallback", 0, 0))
    /\ UNCHANGED << warned, warnings, options, hasCallback, pc, gate, result,
                    retval, thrown, ticks, runState, runResult, closeState,
                    closeResult, cbCalls, watchCalls >>
    /\ UNCHANGED ctorVars

\* What runs without the caller's doing once webpack() has been entered: the
\* synchronous code of the invocation, the completion callbacks of run and
\* close, and the tick queue.
Scheduled ==
    \/ \E checks \in [DOMAIN options.configs -> BOOLEAN], valid \in BOOLEAN :
          SchemaGate(checks, valid)
    \/ StepOk
    \/ StepThrow
    \/ PluginOk
    \/ PluginThrow
    \/ ReturnCompiler
    \/ CreateMulti
    \/ SetDependencies
    \/ SetDependenciesThrow
    \/ DispatchWatch
    \/ DispatchRun
    \/ DispatchNone
    \/ Return
    \/ \E o \in RunOutcomes : RunCallback(o[1], o[2])
    \/ \E e \in CloseOutcomes : CloseCallback(e)
    \/ Tick
    \/ ManualRunCallback

\* The caller invokes webpack() with one of the given options values, with
\* or without a callback; one invocation is under way at a time.
Invoke(values) ==
    /\ pc = "idle"
    /\ \E opts \in values, cb \in BOOLEAN : Webpack(opts, cb)

\* A process that invokes webpack() again and again.
Next ==
    \/ Invoke(OptionValues)
    \/ Discard
    \/ Scheduled
    \/ ManualRun

Spec == Init /\ [][Next]_vars

\* A process that invokes webpack() once, with an options value of any size
\* up to MaxSingleSize.
NextSingle ==
    \/ Invoke(LargeOptionValues)
    \/ Scheduled
    \/ ManualRun

SingleSpec == Init /\ [][NextSingle]_vars

\* The single invocation under the scheduling of the runtime: synchronous
\* code runs to completion, queued ticks run, and run and close call their
\* completion callbacks.  Nothing obliges the caller to invoke webpack() or
\* to run the compiler it got back.
FairSingleSpec == SingleSpec /\ WF_vars(Scheduled)

\* ------------------------------------------------------------------- claims
IsPrefix(s, t) == Len(s) <= Len(t) /\ \A j \in DOMAIN s : s[j] = t[j]

Occurs(e) == \E j \in DOMAIN log : log[j] = e

\* The entries of the log whose operation is in ops, in order.
Ops(ops) ==
    LET In(e) == e.op \in ops
        sel == SelectSeq(log, In)
    IN  [j \in DOMAIN sel |-> sel[j].op]

HookOrder == << "environment", "afterEnvironment", "initialize" >>

\* C1: the hooks called on a compiler are at every moment a prefix of
\* environment, afterEnvironment, initialize, and by the time createCompiler
\* returns the compiler they are exactly these three, once each.
C1_HooksInOrder ==
    \A c \in DOMAIN compilers :
        /\ IsPrefix(compilers[c].hooks, HookOrder)
        /\ Occurs(Ev("return", c, 0)) => compilers[c].hooks = HookOrder

\* createCompiler has returned a compiler that user plugins registered on.
C1_Witness ==
    /\ Occurs(Ev("return", 1, 0))
    /\ Len(compilers[1].taps) > 1
    /\ compilers[1].hooks = HookOrder

\* webpack() was given a callback, create() succeeded and the watch flag it
\* returned is false: lines 176-182 have been reached.
RunBranch ==
    /\ hasCallback
    /\ pc \in {"return", "returned"}
    /\ retval # "null"
    /\ ~result.watch

RunChain == << "run", "runCallback", "close", "closeCallback", "callback" >>

\* C2: in the run branch run has been invoked; close has been invoked
\* exactly when run's callback has fired, whatever error it carried; the
\* user callback has been invoked exactly when close's callback has fired;
\* and the calls happen in the order run, run's callback, close, close's
\* callback, user callback.
C2_RunThenClose ==
    RunBranch =>
        /\ runState # "none"
        /\ (closeState # "none") <=> (runState = "done")
        /\ (cbCalls # <<>>) <=> (closeState = "done")
        /\ IsPrefix(Ops({"run", "runCallback", "close", "closeCallback", "callback",
                         "watch"}), RunChain)

\* A failed run has been closed and reported.
C2_Witness ==
    /\ RunBranch
    /\ runResult[1] = "RunError"
    /\ closeState = "done"
    /\ Len(cbCalls) = 1

\* C3: once close's callback has fired, the user callback has been called
\* once, with the run error if there is one and the close error otherwise,
\* and with the stats run handed over.
C3_MergedError ==
    closeState = "done" =>
        cbCalls = << << IF runResult[1] \notin Absent THEN runResult[1] ELSE closeResult,
                        runResult[2] >> >>

\* Both run and close failed.
C3_Witness ==
    /\ closeState = "done"
    /\ runResult[1] = "RunError"
    /\ closeResult = "CloseError"
    /\ cbCalls # <<>>

\* The invocation is over and create() did not run to its return.
Aborted == pc \in {"returned", "thrown"} /\ result = NoResult

\* The error raised at the place where create() stopped.
FailingError ==
    IF gate = "slowRejects" THEN "ValidationError"
    ELSE IF multi THEN "DependencyGraphError"
    ELSE IF step = "plugins"
         THEN IF Cfg.plugins[k] = "invalid" THEN "TypeError" ELSE "PluginError"
         ELSE StepError(step)

\* The user callback was called after webpack() returned.
CallbackAfterReturn ==
    \E i, j \in DOMAIN log :
        i < j /\ log[i] = Ev("return", 0, 0) /\ log[j] = Ev("callback", 0, 0)

\* C4: with a callback nothing is ever thrown to the caller; while
\* webpack() is still constructing, the callback has not been called; and
\* when construction has failed, webpack() has returned null, nothing was
\* started, and the error is either still queued for the next tick or has
\* been handed to the callback, alone, after webpack() returned.
C4_DeferredError ==
    hasCallback =>
        /\ pc # "thrown" /\ thrown = "none"
        /\ pc \in {"validate", "createCompiler", "multi", "dependencies", "dispatch"} =>
              cbCalls = <<>>
        /\ Aborted =>
              /\ retval = "null"
              /\ runState = "none" /\ watchCalls = <<>>
              /\ \/ ticks = << FailingError >> /\ cbCalls = <<>>
                 \/ /\ ticks = <<>>
                    /\ cbCalls = << << FailingError, "undefined" >> >>
                    /\ CallbackAfterReturn

\* A plugin threw and the callback has received its error.
C4_Witness ==
    /\ hasCallback
    /\ Aborted
    /\ cbCalls = << << "PluginError", "undefined" >> >>

\* C5: without a callback, when construction has failed the error has left
\* webpack() as an exception: nothing was returned, nothing is queued, no
\* callback ran and nothing was started.
C5_SynchronousThrow ==
    (~hasCallback /\ Aborted) =>
        /\ pc = "thrown"
        /\ thrown = FailingError
        /\ retval = "none"
        /\ ticks = <<>> /\ cbCalls = <<>>
        /\ runState = "none" /\ watchCalls = <<>> /\ manual = "none"

\* A hook threw and there was no callback.
C5_Witness ==
    /\ ~hasCallback
    /\ pc = "thrown"
    /\ thrown = "EnvironmentHookError"

Warnings(code) == Cardinality({j \in DOMAIN warnings : warnings[j] = code})

\* The validator's error is nowhere: not thrown, not queued, not delivered.
NoValidationError ==
    /\ thrown # "ValidationError"
    /\ \A j \in DOMAIN ticks : ticks[j] # "ValidationError"
    /\ \A j \in DOMAIN cbCalls : cbCalls[j][1] # "ValidationError"

\* C6: when the predicate rejected a configuration and the validator
\* accepted the options, the deprecation was issued and its warning stands
\* written once in the process, no validation error arises, createCompiler
\* is entered, and unless a later step of construction throws webpack()
\* returns the compiler.
C6_DiscrepancyProceeds ==
    gate = "slowAccepts" =>
        /\ Occurs(Ev("deprecateSchema", 0, 0))
        /\ SchemaCode \in warned /\ Warnings(SchemaCode) = 1
        /\ NoValidationError
        /\ pc = "createCompiler" \/ Occurs(Ev(Steps[1], 1, 0))
        /\ (pc = "returned" /\ ~Aborted) => retval = "compiler"

\* The discrepancy occurred and webpack() returned a compiler.
C6_Witness ==
    /\ gate = "slowAccepts"
    /\ pc = "returned"
    /\ retval = "compiler"

\* The steps of createCompiler that this invocation has executed, for any
\* configuration.
CreateOps ==
    LET InCreate(e) == e.c >= 1
    IN  SelectSeq(log, InCreate)

\* C7: when both the predicate and the validator rejected the options, no
\* step of createCompiler was executed, no compiler exists, no deprecation
\* was issued, nothing was started or returned, and the validator's error
\* is what the caller gets: thrown without a callback, and with one queued
\* for, then handed to, the callback.
C7_InvalidFails ==
    gate = "slowRejects" =>
        /\ Aborted
        /\ CreateOps = <<>> /\ compilers = <<>> /\ ~multi
        /\ ~Occurs(Ev("deprecateSchema", 0, 0))
        /\ retval # "compiler"
        /\ runState = "none" /\ watchCalls = <<>> /\ manual = "none"
        /\ IF hasCallback
           THEN \/ ticks = << "ValidationError" >> /\ cbCalls = <<>>
                \/ ticks = <<>> /\ cbCalls = << << "ValidationError", "undefined" >> >>
           ELSE thrown = "ValidationError"

\* The validator's error has reached the callback.
C7_Witness ==
    /\ gate = "slowRejects"
    /\ hasCallback
    /\ cbCalls = << << "ValidationError", "undefined" >> >>

\* << 0, 1, ..., n - 1 >>: on a compiler, the environment plugin (0) and
\* then the user plugins by their index in the plugin list.
UpTo(n) == [j \in 1..n |-> j - 1]

\* C8: on every compiler the registrations are the environment plugin and
\* then the user plugins in list order; the j-th user plugin found
\* registered exactly the environment plugin and the user plugins before
\* it; and once the loop is over every plugin of the list has registered.
C8_PluginOrder ==
    \A c \in DOMAIN compilers :
        LET t == compilers[c].taps
            sn == compilers[c].seen
        IN  /\ t = UpTo(Len(t))
            /\ Len(sn) = IF t = <<>> THEN 0 ELSE Len(t) - 1
            /\ \A j \in DOMAIN sn : sn[j] = UpTo(j)
            /\ Occurs(Ev("applyDefaults", c, 0)) =>
                  Len(t) = Len(options.configs[c].plugins) + 1

\* Two user plugins have registered on one compiler.
C8_Witness == \E c \in DOMAIN compilers : Len(compilers[c].seen) >= 2

\* The environment plugin and every user plugin of configuration c have
\* registered on its compiler.
AllRegistered(c) ==
    /\ c \in DOMAIN compilers
    /\ compilers[c].taps = UpTo(Len(options.configs[c].plugins) + 1)

\* C9: a compiler on which a hook has been called has all its plugins
\* registered; when run or watch has been started, by webpack() or by the
\* caller, the compiler of every configuration has; and in the order of
\* calls every registration on a compiler comes before every hook call on
\* it and before any run or watch.
C9_PluginsBeforeHooks ==
    /\ \A c \in DOMAIN compilers : compilers[c].hooks # <<>> => AllRegistered(c)
    /\ (runState # "none" \/ watchCalls # <<>> \/ manual # "none") =>
          \A c \in DOMAIN options.configs : AllRegistered(c)
    /\ \A i, j \in DOMAIN log :
          ( /\ log[i].op \in {"envPlugin", "plugin.call", "plugin.apply"}
            /\ \/ log[j].op \in HookSteps /\ log[j].c = log[i].c
               \/ log[j].op \in {"run", "watch", "callerRun"} )
          => i < j

\* Run has been started on a compiler that a user plugin registered on.
C9_Witness ==
    /\ runState # "none"
    /\ Len(compilers[1].taps) >= 2
    /\ compilers[1].hooks = HookOrder

RunStarted == runState # "none"
WatchStarted == watchCalls # <<>>
Finished == pc \in {"returned", "thrown"}

\* C10 as stated, read for the invocations that return a compiler: exactly
\* one of run and watch has been started.
C10_ExactlyOneStarted ==
    (pc = "returned" /\ retval = "compiler") => (RunStarted # WatchStarted)

\* C10 as amended: run and watch are never both started; watch is called at
\* most once and run at most once; when the invocation is over, one of them
\* has been started exactly if a callback was given and a compiler was
\* returned; and the caller's own run is only ever on a compiler on which
\* webpack() started nothing.
C10_AtMostOneStarted ==
    /\ ~(RunStarted /\ WatchStarted)
    /\ Len(Ops({"run", "watch"})) <= 1
    /\ Finished => ((RunStarted \/ WatchStarted) <=> (hasCallback /\ retval = "compiler"))
    /\ manual # "none" => (~RunStarted /\ ~WatchStarted)

\* webpack() returned a compiler without starting anything, and the caller
\* ran it.
C10_Witness ==
    /\ pc = "returned"
    /\ retval = "compiler"
    /\ ~RunStarted /\ ~WatchStarted
    /\ manual = "pending"

\* The invocation got past the dispatch of lines 172-182 or 191-198.
Dispatched == pc \in {"return", "returned"} /\ result # NoResult

\* One watch-options entry per configuration, in configuration order: the
\* configuration's own, or an empty object where it declares none.
PerChildWatchOptions ==
    [i \in DOMAIN options.configs |->
        IF options.configs[i].watchOptions = "undefined" THEN "{}"
        ELSE options.configs[i].watchOptions]

AnyWatch == \E i \in DOMAIN options.configs : options.configs[i].watch

\* C11: for an array of configurations with a callback, once the dispatch is
\* done, watch has been called iff some element's watch flag is true, and
\* then exactly once, with one watch-options entry per configuration in
\* configuration order and with the user callback, and run has not been
\* called; when every flag is false, run has been called and watch has not.
C11_ArrayWatch ==
    (options.isArray /\ hasCallback /\ Dispatched) =>
        /\ WatchStarted <=> AnyWatch
        /\ AnyWatch =>
              /\ watchCalls = << [options |-> PerChildWatchOptions, handler |-> "callback"] >>
              /\ ~RunStarted
        /\ ~AnyWatch => RunStarted /\ watchCalls = <<>>

\* An array of two, of which only the second watches and only the second
\* declares watch options, has been dispatched to watch.
C11_Witness ==
    /\ options.isArray /\ hasCallback /\ Dispatched
    /\ Len(options.configs) = 2
    /\ ~options.configs[1].watch /\ options.configs[2].watch
    /\ watchCalls = << [options |-> << "{}", "custom" >>, handler |-> "callback"] >>

\* How many times e stands in the log of the invocation.
Count(e) == Cardinality({j \in DOMAIN log : log[j] = e})

\* C12: without a callback and with a true watch flag, once the dispatch is
\* done webpack() has called none of run, watch and close, has issued the
\* watch-without-callback deprecation exactly once, whose warning stands
\* written once in the process, and what it returns is the compiler.
C12_WatchWithoutCallback ==
    (~hasCallback /\ Dispatched /\ result.watch) =>
        /\ Ops({"run", "watch", "close"}) = <<>>
        /\ runState = "none" /\ watchCalls = <<>> /\ closeState = "none"
        /\ Count(Ev("deprecateWatch", 0, 0)) = 1
        /\ Warnings(WatchCode) = 1
        /\ thrown = "none"
        /\ pc = "returned" => retval = "compiler"

\* webpack() returned the compiler of a watching configuration to a caller
\* that gave no callback.
C12_Witness ==
    /\ ~hasCallback /\ result.watch
    /\ pc = "returned"
    /\ retval = "compiler"
    /\ Count(Ev("deprecateWatch", 0, 0)) = 1

\* create() has returned the MultiCompiler: the loop over the children is over.
MultiBuilt == multi /\ result # NoResult

\* The dependency graph: an edge from a child to each peer its recorded
\* dependencies name.
Edges ==
    UNION { {<< depMap[j].child, depMap[j].names[i] >> : i \in DOMAIN depMap[j].names} :
            j \in DOMAIN depMap }

\* The children for which something was recorded.
Recorded == {depMap[j].child : j \in DOMAIN depMap}

\* An edge from each child to each name of its declared dependencies.
DeclaredEdges ==
    UNION { {<< c, options.configs[c].dependencies.names[i] >> :
                i \in DOMAIN options.configs[c].dependencies.names} :
            c \in DOMAIN options.configs }

\* C13: the dependency graph never has an edge that no configuration
\* declares; once the MultiCompiler is built it has exactly one edge from
\* each child to each peer the child's list names, nothing is recorded for
\* a child that declares no list, and a child with an empty list has no
\* edge; for two configurations of which the second depends on the first by
\* name, the graph is the one edge from the second to the first and nothing
\* is recorded for the first.
C13_DependencyEdges ==
    /\ Edges \subseteq DeclaredEdges
    /\ MultiBuilt =>
          /\ Edges = DeclaredEdges
          /\ \A c \in DOMAIN options.configs :
                /\ ~options.configs[c].dependencies.declared => c \notin Recorded
                /\ options.configs[c].dependencies.names = <<>> =>
                      \A e \in Edges : e[1] # c
                /\ Cardinality({j \in DOMAIN depMap : depMap[j].child = c}) <= 1
          /\ ( /\ Len(options.configs) = 2
               /\ ~options.configs[1].dependencies.declared
               /\ options.configs[2].dependencies.names = << options.configs[1].name >> )
             => Edges = {<< 2, options.configs[1].name >>} /\ Recorded = {2}

\* The MultiCompiler of two configurations, the second depending on the
\* first, is built, with its one edge.
C13_Witness ==
    /\ MultiBuilt
    /\ Len(options.configs) = 2
    /\ ~options.configs[1].dependencies.declared
    /\ options.configs[2].dependencies.names = << "a" >>
    /\ Edges = {<< 2, "a" >>}

\* Construction stopped in the plugin loop at a plugin that is neither
\* callable nor has apply.
FailedAtInvalid ==
    /\ Aborted
    /\ gate # "slowRejects"
    /\ ~multi
    /\ step = "plugins"
    /\ Cfg.plugins[k] = "invalid"

\* The error that has left create(): thrown, queued for the callback or
\* handed to it.
SurfacedError ==
    IF thrown # "none" THEN thrown
    ELSE IF ticks # <<>> THEN ticks[1]
    ELSE IF cbCalls # <<>> THEN cbCalls[1][1]
    ELSE "none"

\* An error of its own class for a plugin of neither shape, naming the
\* plugin's index.
InvalidPluginError(i) == "InvalidPluginError: plugins[" \o ToString(i) \o "]"

\* No plugin after index i of configuration c has been called, createCompiler
\* has not returned for c, and webpack() has returned no compiler.
StoppedAt(c, i) ==
    /\ \A j \in DOMAIN options.configs[c].plugins :
          j > i => /\ ~Occurs(Ev("plugin.call", c, j))
                   /\ ~Occurs(Ev("plugin.apply", c, j))
    /\ ~Occurs(Ev("return", c, 0))
    /\ c <= Len(compilers) => \A j \in DOMAIN compilers[c].taps : compilers[c].taps[j] <= i
    /\ retval # "compiler"

InvalidPlugins ==
    {ci \in (DOMAIN options.configs) \X (1..MaxSingleSize) :
        /\ ci[2] \in DOMAIN options.configs[ci[1]].plugins
        /\ options.configs[ci[1]].plugins[ci[2]] = "invalid"}

HasUnknownPeer ==
    /\ options.isArray
    /\ \E c \in DOMAIN options.configs :
          /\ options.configs[c].dependencies.declared
          /\ UnknownPeer(options.configs[c].dependencies.names)

C16_DiagnosticsOnce ==
    /\ Warnings(SchemaCode) <= 1
    /\ Warnings(WatchCode) <= 1
    /\ Len(warnings) <= 2
    /\ Occurs(Ev("deprecateSchema", 0, 0)) =>
          /\ SchemaCode \in warned
          /\ NoValidationError
          /\ pc = "createCompiler" \/ Occurs(Ev(Steps[1], 1, 0))
    /\ Occurs(Ev("deprecateWatch", 0, 0)) =>
          /\ WatchCode \in warned
          /\ pc \in {"return", "returned"}
          /\ thrown = "none" /\ ticks = <<>> /\ cbCalls = <<>>
          /\ pc = "returned" => retval = "compiler"

\* An invocation has issued both deprecations and returned the compiler,
\* and the warning of the watch deprecation was written before that of the
\* schema deprecation: by an earlier invocation, and not again by this one.
C16_Witness ==
    /\ Occurs(Ev("deprecateSchema", 0, 0))
    /\ Occurs(Ev("deprecateWatch", 0, 0))
    /\ warnings = << WatchCode, SchemaCode >>
    /\ pc = "returned"
    /\ retval = "compiler"

\* C17: webpack() has returned null only where a callback was given and
\* construction failed, and then the error is queued for the callback or
\* was handed to it after webpack() returned; where construction succeeded,
\* what webpack() has returned is the compiler, whether run or watch was
\* invoked on it or not, and whether or not run has completed.
C17_NullOnlyOnError ==
    /\ retval = "null" =>
          /\ hasCallback /\ Aborted /\ pc = "returned"
          /\ \/ ticks = << FailingError >> /\ cbCalls = <<>>
             \/ /\ ticks = <<>>
                /\ cbCalls = << << FailingError, "undefined" >> >>
                /\ CallbackAfterReturn
    /\ (pc = "returned" /\ ~Aborted) => retval = "compiler"
    /\ (pc = "returned" /\ (RunStarted \/ WatchStarted)) => retval = "compiler"
    /\ pc = "returned" <=> retval \in {"null", "compiler"}

\* webpack() has returned the compiler on which run was invoked and has not
\* completed.
C17_Witness ==
    /\ hasCallback
    /\ pc = "returned"
    /\ retval = "compiler"
    /\ runState = "pending"
    /\ cbCalls = <<>>

\* The operations of createCompiler executed for configuration c, in order.
OpsOf(c) ==
    LET For(e) == e.c = c
        sel == SelectSeq(log, For)
    IN  [j \in DOMAIN sel |-> sel[j].op]

\* The one order of createCompiler for configuration c: normalize, base
\* defaults, construct the compiler, the environment-integration plugin,
\* the user plugins in list order, full defaults, the environment hook, the
\* afterEnvironment hook, the option-derived translation, the initialize
\* hook, and the return of the compiler.
FixedOrder(c) ==
    << "normalize", "baseDefaults", "newCompiler", "envPlugin" >>
    \o [i \in DOMAIN options.configs[c].plugins |->
           IF options.configs[c].plugins[i] = "function" THEN "plugin.call"
           ELSE "plugin.apply"]
    \o << "applyDefaults", "environment", "afterEnvironment", "process",
          "initialize", "return" >>

\* C18: for every configuration, what createCompiler has executed is at
\* every moment a beginning of the one fixed order, and all of it once it
\* has returned the compiler.
C18_FixedStepOrder ==
    \A c \in DOMAIN options.configs :
        /\ IsPrefix(OpsOf(c), FixedOrder(c))
        /\ Occurs(Ev("return", c, 0)) => OpsOf(c) = FixedOrder(c)

\* createCompiler has returned the compiler of a configuration with two
\* plugins, one of each shape, and has begun on a second configuration.
C18_Witness ==
    /\ Len(options.configs) = 2
    /\ options.configs[1].plugins = << "object", "function" >>
    /\ OpsOf(1) = FixedOrder(1)
    /\ OpsOf(2) = << "normalize", "baseDefaults" >>

\* An error has left create(): it was thrown to the caller or queued for
\* the callback.
Failed == Occurs(Ev("throw", 0, 0)) \/ Occurs(Ev("nextTick", 0, 0))

\* The error came from the schema gate or from createCompiler, for the one
\* configuration or for a child of the array.
ConstructionFailed == Failed /\ SurfacedError # "DependencyGraphError"

\* C19: when the schema gate or a step of createCompiler has failed, for the
\* one configuration or for any child of an array, the invocation is over
\* with no compiler returned, no MultiCompiler was constructed, nothing was
\* handed to setDependencies, and none of run, watch and close was invoked,
\* by webpack() or on its return value, whatever children were already built.
C19_FailureAbortsAll ==
    ConstructionFailed =>
        /\ Aborted /\ retval # "compiler"
        /\ ~multi
        /\ depMap = <<>> /\ Edges = {}
        /\ runState = "none" /\ closeState = "none" /\ watchCalls = <<>>
        /\ manual = "none"
        /\ Ops({"MultiCompiler", "setDependencies", "run", "watch", "close", "callerRun"}) = <<>>

\* The second child of an array failed at a hook after the first was built
\* in full, and the callback has been told.
C19_Witness ==
    /\ ConstructionFailed
    /\ Len(options.configs) = 2 /\ child = 2
    /\ OpsOf(1) = FixedOrder(1)
    /\ Len(compilers) = 2
    /\ cbCalls = << << "EnvironmentHookError", "undefined" >> >>

\* webpack() was invoked with a callback and no configuration has a true
\* watch flag.
CallbackNoWatch == pc # "idle" /\ hasCallback /\ ~AnyWatch

\* C20: in an invocation with a callback and no true watch flag, where run
\* and close call their completion callbacks, the user callback is never
\* called more than once and, from the moment webpack() is entered, is
\* eventually called, whether construction, run or close fails or none does.
C20_CallbackOnce ==
    /\ [](CallbackNoWatch => Len(cbCalls) <= 1)
    /\ (CallbackNoWatch /\ pc = "validate") ~> (Len(cbCalls) = 1)

\* The callback has been called once, with the error of close after a run
\* that succeeded.
C20_Witness ==
    /\ CallbackNoWatch
    /\ runResult = << "null", "stats" >>
    /\ cbCalls = << << "CloseError", "stats" >> >>

====
